---- MODULE Spec2Model ----
(***************************************************************************)
(* Model of ExpressionLanguageParser                                       *)
(* (src/assets/scripts/components/expression-language-parser.js).          *)
(*                                                                         *)
(* JavaScript strings are TLA+ strings; indices are 0-based as in the      *)
(* source.  JavaScript values are tagged records.  An evaluation threads   *)
(* the mutable part of the parser object (this.environment, plus the set   *)
(* of array identities already handed out) through every step, and an      *)
(* exception is a result with ok = FALSE that carries the state at the     *)
(* point of the throw.                                                     *)
(***************************************************************************)
EXTENDS Integers, Sequences, FiniteSets, TLC

\* const x = value; ...x...  : the value is computed once and the rest of
\* the block reads it
Let(value, In(_)) == In(value)

\* ------------------------------------------------------------------------
\* String primitives of the JavaScript runtime used by the parser
\* ------------------------------------------------------------------------

\* Characters matched by \s and removed by trim() (space and tab only; the
\* inputs of the model contain no other white space).
WS == {" ", "\t"}

Digits == {"0", "1", "2", "3", "4", "5", "6", "7", "8", "9"}

Letters == {"a", "b", "c", "d", "e", "f", "g", "h", "i", "j", "k", "l", "m",
            "n", "o", "p", "q", "r", "s", "t", "u", "v", "w", "x", "y", "z",
            "A", "B", "C", "D", "E", "F", "G", "H", "I", "J", "K", "L", "M",
            "N", "O", "P", "Q", "R", "S", "T", "U", "V", "W", "X", "Y", "Z"}

\* [a-zA-Z_] and [a-zA-Z0-9_]
IdentStart == Letters \cup {"_"}
IdentPart == IdentStart \cup Digits

\* the least / greatest element of S, or none when S is empty
Min(S, none) == IF S = {} THEN none ELSE CHOOSE m \in S : \A o \in S : m <= o
Max(S, none) == IF S = {} THEN none ELSE CHOOSE m \in S : \A o \in S : m >= o

\* s[i]; "" stands for the undefined that an out-of-range index yields
CharAt(s, i) == IF i >= 0 /\ i < Len(s) THEN SubSeq(s, i + 1, i + 1) ELSE ""

Clamp(i, n) == IF i < 0 THEN 0 ELSE IF i > n THEN n ELSE i

\* s.substring(a, b): both ends clamped to [0, length], swapped if a > b
Substring(s, a, b) ==
  SubSeq(s, Min({Clamp(a, Len(s)), Clamp(b, Len(s))}, 0) + 1,
            Max({Clamp(a, Len(s)), Clamp(b, Len(s))}, 0))

\* s.substring(a)
SubstringFrom(s, a) == Substring(s, a, Len(s))

StartsWithAt(s, t, i) ==
  /\ i >= 0
  /\ i + Len(t) <= Len(s)
  /\ SubSeq(s, i + 1, i + Len(t)) = t

StartsWith(s, t) == StartsWithAt(s, t, 0)
EndsWith(s, t) == StartsWithAt(s, t, Len(s) - Len(t))

\* s.indexOf(t, from), -1 when absent (t is never empty in the parser)
IndexOfFrom(s, t, from) ==
  Min({i \in Clamp(from, Len(s))..(Len(s) - Len(t)) : StartsWithAt(s, t, i)}, -1)

IndexOf(s, t) == IndexOfFrom(s, t, 0)

LastIndexOf(s, t) == Max({i \in 0..(Len(s) - Len(t)) : StartsWithAt(s, t, i)}, -1)

Includes(s, t) == IndexOf(s, t) # -1

\* index of the first character of s, at or after i, that is not in set C
\* (Len(s) when there is none)
SkipSet(s, i, C) ==
  Min({j \in i..(Len(s) - 1) : CharAt(s, j) \notin C}, IF i > Len(s) THEN i ELSE Len(s))

SkipWS(s, i) == SkipSet(s, i, WS)

\* s.trim()
Trim(s) ==
  LET keep == {j \in 0..(Len(s) - 1) : CharAt(s, j) \notin WS}
  IN  SubSeq(s, Min(keep, 0) + 1, Max(keep, -1) + 1)

\* s.split(sep) for a non-empty separator
RECURSIVE Split(_, _)
Split(s, sep) ==
  LET i == IndexOf(s, sep)
  IN  IF i = -1 THEN <<s>>
      ELSE <<SubSeq(s, 1, i)>> \o Split(SubSeq(s, i + Len(sep) + 1, Len(s)), sep)

\* every character of s is in C and s is not empty (the regex C+ anchored
\* at both ends)
AllIn(s, C) == Len(s) > 0 /\ \A j \in 0..(Len(s) - 1) : CharAt(s, j) \in C

\* /^[a-zA-Z_][a-zA-Z0-9_]*$/
IsIdentifier(s) ==
  /\ Len(s) > 0
  /\ CharAt(s, 0) \in IdentStart
  /\ \A j \in 1..(Len(s) - 1) : CharAt(s, j) \in IdentPart

\* ------------------------------------------------------------------------
\* JavaScript values
\* ------------------------------------------------------------------------

\* A Number is an extended rational n/d with d >= 0 in lowest terms:
\* d = 1.. finite, 1/0 = Infinity, -1/0 = -Infinity, 0/0 = NaN.
\* (Negative zero is not distinguished from zero, and results are exact
\* where a double would round.)
Abs(i) == IF i < 0 THEN -i ELSE i
Sign(i) == IF i < 0 THEN -1 ELSE IF i > 0 THEN 1 ELSE 0

RECURSIVE GCD(_, _)
GCD(a, b) == IF b = 0 THEN a ELSE GCD(b, a % b)

Rational(n, d) ==
  IF d = 0 THEN [t |-> "num", n |-> Sign(n), d |-> 0]
  ELSE Let(GCD(Abs(n), Abs(d)), LAMBDA g :
         [t |-> "num", n |-> (Sign(d) * n) \div g, d |-> Abs(d) \div g])

Num(i) == [t |-> "num", n |-> i, d |-> 1]
NaN == [t |-> "num", n |-> 0, d |-> 0]
Infinity == [t |-> "num", n |-> 1, d |-> 0]
Str(s) == [t |-> "str", s |-> s]
Bool(b) == [t |-> "bool", b |-> b]
\* an Array object: id is its identity (===  on objects compares identity)
Arr(id, a) == [t |-> "arr", id |-> id, a |-> a]
\* the object literal { '@predicate': ... } built by _parseArguments
PredicateObject == [t |-> "obj"]
Undefined == [t |-> "undefined"]

IsNaN(x) == x.d = 0 /\ x.n = 0

\* x + y, x - y, x * y, x / y on Numbers
NumAdd(x, y) ==
  IF IsNaN(x) \/ IsNaN(y) THEN NaN
  ELSE IF x.d = 0 /\ y.d = 0 THEN (IF x.n = y.n THEN x ELSE NaN)
  ELSE IF x.d = 0 THEN x
  ELSE IF y.d = 0 THEN y
  ELSE Rational(x.n * y.d + y.n * x.d, x.d * y.d)

NumNeg(x) == [t |-> "num", n |-> -x.n, d |-> x.d]
NumSub(x, y) == NumAdd(x, NumNeg(y))
NumMul(x, y) == Rational(x.n * y.n, x.d * y.d)
NumDiv(x, y) == Rational(x.n * y.d, x.d * y.n)

\* x < y and x == y on Numbers (false whenever a NaN is involved)
NumLt(x, y) ==
  /\ ~IsNaN(x)
  /\ ~IsNaN(y)
  /\ IF x.d = 0 /\ y.d = 0 THEN x.n < y.n ELSE x.n * y.d < y.n * x.d

NumEq(x, y) == ~IsNaN(x) /\ ~IsNaN(y) /\ x.n = y.n /\ x.d = y.d

\* ------------------------------------------------------------------------
\* Number <-> text
\* ------------------------------------------------------------------------

DigitChar(k) == SubSeq("0123456789", k + 1, k + 1)
DigitVal(c) == CHOOSE k \in 0..9 : DigitChar(k) = c

RECURSIVE NatToString(_)
NatToString(k) ==
  IF k < 10 THEN DigitChar(k) ELSE NatToString(k \div 10) \o DigitChar(k % 10)

\* value of a (possibly empty) run of decimal digits
RECURSIVE DigitsToNat(_)
DigitsToNat(s) ==
  IF s = "" THEN 0
  ELSE 10 * DigitsToNat(SubSeq(s, 1, Len(s) - 1)) + DigitVal(CharAt(s, Len(s) - 1))

RECURSIVE Pow10(_)
Pow10(k) == IF k = 0 THEN 1 ELSE 10 * Pow10(k - 1)

\* the first k decimal digits of r/d (r < d), by long division
RECURSIVE FractionToString(_, _, _)
FractionToString(r, d, k) ==
  IF r = 0 \/ k = 0 THEN ""
  ELSE DigitChar((10 * r) \div d) \o FractionToString((10 * r) % d, d, k - 1)

\* String(x) for a Number (a repeating fraction is cut after 16 digits)
NumToString(x) ==
  IF IsNaN(x) THEN "NaN"
  ELSE IF x.d = 0 THEN (IF x.n > 0 THEN "Infinity" ELSE "-Infinity")
  ELSE (IF x.n < 0 THEN "-" ELSE "")
         \o NatToString(Abs(x.n) \div x.d)
         \o (IF Abs(x.n) % x.d = 0 THEN ""
             ELSE "." \o FractionToString(Abs(x.n) % x.d, x.d, 16))

\* the Number that the digits of a decimal literal denote: s is the text,
\* its integer part ends at intEnd and its fraction at fracEnd
ParseDigits(s, signLen, intEnd, fracEnd) ==
  LET fracPart == IF fracEnd > intEnd THEN SubSeq(s, intEnd + 2, fracEnd) ELSE ""
      digits == SubSeq(s, signLen + 1, intEnd) \o fracPart
      expStart == fracEnd + 1 + (IF CharAt(s, fracEnd + 1) \in {"+", "-"} THEN 1 ELSE 0)
      expEnd == SkipSet(s, expStart, Digits)
      sign == IF CharAt(s, 0) = "-" THEN -1 ELSE 1
  IN  CASE StartsWithAt(s, "Infinity", signLen) ->
             [v |-> Rational(sign, 0), len |-> signLen + 8]
        [] digits = "" -> [v |-> NaN, len |-> 0]
        [] ~(CharAt(s, fracEnd) \in {"e", "E"} /\ expEnd > expStart) ->
             [v |-> Rational(sign * DigitsToNat(digits), Pow10(Len(fracPart))),
              len |-> fracEnd]
        [] CharAt(s, fracEnd + 1) = "-" ->
             [v |-> Rational(sign * DigitsToNat(digits),
                             Pow10(Len(fracPart)
                                   + DigitsToNat(SubSeq(s, expStart + 1, expEnd)))),
              len |-> expEnd]
        [] OTHER ->
             [v |-> Rational(sign * DigitsToNat(digits)
                                  * Pow10(DigitsToNat(SubSeq(s, expStart + 1, expEnd))),
                             Pow10(Len(fracPart))),
              len |-> expEnd]

\* the end of the fraction of the literal whose integer part ends at intEnd
ParseFraction(s, signLen, intEnd) ==
  ParseDigits(s, signLen, intEnd,
              IF CharAt(s, intEnd) = "." THEN SkipSet(s, intEnd + 1, Digits) ELSE intEnd)

\* the literal at the start of the trimmed text s
ParseLiteral(s, signLen) == ParseFraction(s, signLen, SkipSet(s, signLen, Digits))

\* parseFloat(s): the longest prefix of the trimmed text that is a decimal
\* literal [+-]?(Infinity | digits[.digits][e[+-]digits] | .digits...).
\* Returns the Number and the number of characters consumed (len = 0 and
\* NaN when there is no such prefix).
ParseFloatPrefix(s) ==
  ParseLiteral(Trim(s), IF CharAt(Trim(s), 0) \in {"+", "-"} THEN 1 ELSE 0)

ParseFloat(s) == ParseFloatPrefix(s).v

\* ------------------------------------------------------------------------
\* Operators of the JavaScript runtime on values (with their coercions)
\* ------------------------------------------------------------------------

RECURSIVE JoinStrings(_, _)
JoinStrings(parts, sep) ==
  IF parts = <<>> THEN ""
  ELSE IF Len(parts) = 1 THEN parts[1]
  ELSE parts[1] \o sep \o JoinStrings(Tail(parts), sep)

\* String(v) / v.toString()
RECURSIVE JsToString(_)
JsToString(v) ==
  IF v.t = "num" THEN NumToString(v)
  ELSE IF v.t = "str" THEN v.s
  ELSE IF v.t = "bool" THEN (IF v.b THEN "true" ELSE "false")
  ELSE IF v.t = "arr" THEN JoinStrings([i \in 1..Len(v.a) |-> JsToString(v.a[i])], ",")
  ELSE IF v.t = "obj" THEN "[object Object]"
  ELSE "undefined"

\* ToPrimitive: objects become their string form
ToPrimitive(v) == IF v.t \in {"arr", "obj"} THEN Str(JsToString(v)) ELSE v

\* Number(s) for a string: the whole trimmed text must be a decimal literal
StringToNumber(s) ==
  IF Trim(s) = "" THEN Num(0)
  ELSE IF ParseFloatPrefix(s).len = Len(Trim(s)) THEN ParseFloat(s)
  ELSE NaN

\* Number(p) for a primitive p
PrimitiveToNumber(p) ==
  IF p.t = "num" THEN p
  ELSE IF p.t = "bool" THEN (IF p.b THEN Num(1) ELSE Num(0))
  ELSE IF p.t = "str" THEN StringToNumber(p.s)
  ELSE NaN

ToNumber(v) == PrimitiveToNumber(ToPrimitive(v))

\* the truthiness that if, !, &&, ||, filter, every and some test
Truthy(v) ==
  IF v.t = "bool" THEN v.b
  ELSE IF v.t = "num" THEN ~IsNaN(v) /\ v.n # 0
  ELSE IF v.t = "str" THEN v.s # ""
  ELSE v.t \in {"arr", "obj"}

\* code units of the printable ASCII characters (32..95 and 97..126)
AsciiLow == " !\"#$%&'()*+,-./0123456789:;<=>?@ABCDEFGHIJKLMNOPQRSTUVWXYZ[\\]^_"
AsciiHigh == "abcdefghijklmnopqrstuvwxyz{|}~"
CharCode(c) ==
  IF c = "\t" THEN 9
  ELSE IF Includes(AsciiLow, c) THEN 32 + IndexOf(AsciiLow, c)
  ELSE 97 + IndexOf(AsciiHigh, c)

RECURSIVE StrLt(_, _)
StrLt(a, b) ==
  IF b = "" THEN FALSE
  ELSE IF a = "" THEN TRUE
  ELSE IF CharAt(a, 0) = CharAt(b, 0) THEN StrLt(Tail(a), Tail(b))
  ELSE CharCode(CharAt(a, 0)) < CharCode(CharAt(b, 0))

\* the operands of a binary operator after ToPrimitive and, on top of that,
\* after ToNumber
Primitives(a, b) == [i \in 1..2 |-> ToPrimitive(IF i = 1 THEN a ELSE b)]
Numbers(p) == [i \in 1..2 |-> PrimitiveToNumber(p[i])]

\* a + b on primitives p with numeric forms n
JsAdd(p, n) ==
  IF p[1].t = "str" \/ p[2].t = "str"
    THEN Str(JoinStrings([i \in 1..2 |-> JsToString(p[i])], ""))
  ELSE NumAdd(n[1], n[2])

\* a < b and a <= b on primitives p with numeric forms n
JsLt(p, n) ==
  IF p[1].t = "str" /\ p[2].t = "str" THEN StrLt(p[1].s, p[2].s) ELSE NumLt(n[1], n[2])

JsLe(p, n) ==
  IF p[1].t = "str" /\ p[2].t = "str" THEN p[1].s = p[2].s \/ StrLt(p[1].s, p[2].s)
  ELSE NumLt(n[1], n[2]) \/ NumEq(n[1], n[2])

\* a === b
StrictEquals(a, b) ==
  /\ a.t = b.t
  /\ IF a.t = "num" THEN NumEq(a, b)
     ELSE IF a.t = "str" THEN a.s = b.s
     ELSE IF a.t = "bool" THEN a.b = b.b
     ELSE IF a.t = "arr" THEN a.id = b.id
     ELSE a.t = "undefined"

\* a == b, with p and n the primitives and numeric forms of a and b
LooseEquals(a, b, p, n) ==
  IF a.t = b.t THEN StrictEquals(a, b)
  ELSE IF a.t = "undefined" \/ b.t = "undefined" THEN FALSE
  ELSE IF p[1].t = "str" /\ p[2].t = "str" THEN p[1].s = p[2].s
  ELSE NumEq(n[1], n[2])

\* Array.prototype.includes(x): SameValueZero
ArrayIncludes(arr, x) ==
  \E i \in 1..Len(arr.a) :
     \/ StrictEquals(arr.a[i], x)
     \/ (x.t = "num" /\ arr.a[i].t = "num" /\ IsNaN(x) /\ IsNaN(arr.a[i]))

\* left OP right for the operators of the parser; loose selects == and !=
\* (the @it comparisons) instead of === and !== (everywhere else)
BinaryOperation(operator, loose, a, b, p, n) ==
  IF operator = "==" /\ loose THEN Bool(LooseEquals(a, b, p, n))
  ELSE IF operator = "!=" /\ loose THEN Bool(~LooseEquals(a, b, p, n))
  ELSE IF operator = "==" THEN Bool(StrictEquals(a, b))
  ELSE IF operator = "!=" THEN Bool(~StrictEquals(a, b))
  ELSE IF operator = ">=" THEN Bool(JsLe(<<p[2], p[1]>>, <<n[2], n[1]>>))
  ELSE IF operator = "<=" THEN Bool(JsLe(p, n))
  ELSE IF operator = ">" THEN Bool(JsLt(<<p[2], p[1]>>, <<n[2], n[1]>>))
  ELSE IF operator = "<" THEN Bool(JsLt(p, n))
  ELSE IF operator = "+" THEN JsAdd(p, n)
  ELSE IF operator = "-" THEN NumSub(n[1], n[2])
  ELSE IF operator = "*" THEN NumMul(n[1], n[2])
  ELSE NumDiv(n[1], n[2])

\* ------------------------------------------------------------------------
\* _formatValue
\* ------------------------------------------------------------------------

RECURSIVE FormatValue(_)
FormatValue(value) ==
  IF value.t = "undefined" THEN "undefined"
  ELSE IF value.t = "bool" THEN (IF value.b THEN "True" ELSE "False")
  ELSE IF value.t = "str" THEN "\"" \o value.s \o "\""
  ELSE IF value.t = "arr"
    THEN "[" \o JoinStrings([i \in 1..Len(value.a) |-> FormatValue(value.a[i])], ", ") \o "]"
  ELSE JsToString(value)

\* ------------------------------------------------------------------------
\* The regular expressions of the parser, as matchers
\* ------------------------------------------------------------------------

\* index of the first "(" or ")" of s at or after i (Len(s) when none)
NextParen(s, i) == Min({j \in i..(Len(s) - 1) : CharAt(s, j) \in {"(", ")"}}, Len(s))

\* /^"[^"]*"\s*==\s*"[^"]*"$/ with quote character q
QuotedEqualsMatch(expr, q) ==
  Let(IndexOfFrom(expr, q, 1), LAMBDA c1 :
  Let(SkipWS(expr, c1 + 1), LAMBDA i2 :
  Let(SkipWS(expr, i2 + 2), LAMBDA i3 :
    /\ CharAt(expr, 0) = q
    /\ c1 # -1
    /\ StartsWithAt(expr, "==", i2)
    /\ CharAt(expr, i3) = q
    /\ IndexOfFrom(expr, q, i3 + 1) = Len(expr) - 1)))

\* /^(filter|all|any)\s*\(\s*[a-zA-Z_][a-zA-Z0-9_]*\s*,\s*\{@it/ (prefix) and
\* /^(filter|all|any)\s*\(\s*([a-zA-Z_][a-zA-Z0-9_]*)\s*,\s*\{(.+)\}\)$/ (full)
CollectionCallMatch(expr) ==
  Let(IF StartsWith(expr, "filter") THEN "filter"
      ELSE IF StartsWith(expr, "all") THEN "all"
      ELSE IF StartsWith(expr, "any") THEN "any"
      ELSE "", LAMBDA functionName :
  Let(SkipWS(expr, Len(functionName)), LAMBDA i1 :
  Let(SkipWS(expr, i1 + 1), LAMBDA i2 :
  Let(SkipSet(expr, i2 + 1, IdentPart), LAMBDA i3 :
  Let(SkipWS(expr, i3), LAMBDA i4 :
  Let(SkipWS(expr, i4 + 1), LAMBDA i5 :
  Let(/\ functionName # ""
      /\ CharAt(expr, i1) = "("
      /\ CharAt(expr, i2) \in IdentStart
      /\ CharAt(expr, i4) = ","
      /\ CharAt(expr, i5) = "{", LAMBDA head :
    [prefix |-> head /\ StartsWithAt(expr, "{@it", i5),
     full |-> head /\ EndsWith(expr, "})") /\ Len(expr) - 2 - (i5 + 1) >= 1,
     functionName |-> functionName,
     collectionName |-> Substring(expr, i2, i3),
     predicate |-> Substring(expr, i5 + 1, Len(expr) - 2)])))))))

\* the operators of lines 158-198, in the order the source tries them
ItComparisonOps == <<">", "<", ">=", "<=", "==", "!=">>

\* /^@it\s*OP\s*(\d+)$/ for the k-th of these operators: the text of the
\* (\d+) group, or "" when expr does not match
ItComparisonNumber(expr, k) ==
  LET i1 == SkipWS(expr, 3)
      number == SubstringFrom(expr, SkipWS(expr, i1 + Len(ItComparisonOps[k])))
  IN  IF /\ StartsWith(expr, "@it")
         /\ StartsWithAt(expr, ItComparisonOps[k], i1)
         /\ AllIn(number, Digits)
      THEN number ELSE ""

\* the first of these operators whose regex matches expr (0 when none does)
ItComparisonMatch(expr) ==
  Min({k \in 1..Len(ItComparisonOps) : ItComparisonNumber(expr, k) # ""}, 0)

\* /^\([^()]+\)/ : index of the ")" that closes the group that starts at
\* from, or -1
LeadingGroupEnd(expr, from) ==
  LET c == NextParen(expr, from + 1)
  IN  IF CharAt(expr, from) = "(" /\ CharAt(expr, c) = ")" /\ c >= from + 2
      THEN c ELSE -1

\* /^\([^()]+\)\s*[\*\/\+\-]\s*.+$/ with the group ending at groupEnd and
\* the operator expected at opAt
ParenArithmeticMatch(expr, groupEnd, opAt) ==
  /\ groupEnd # -1
  /\ CharAt(expr, opAt) \in {"*", "/", "+", "-"}
  /\ Len(expr) - (opAt + 1) >= 1

\* /^(\([^()]+\))\s*(\&\&|\|\|)\s*(\([^()]+\))$/
ParenLogicalMatch(expr, groupEnd, opAt) ==
  /\ groupEnd # -1
  /\ (StartsWithAt(expr, "&&", opAt) \/ StartsWithAt(expr, "||", opAt))
  /\ LeadingGroupEnd(expr, SkipWS(expr, opAt + 2)) = Len(expr) - 1

\* /^([a-zA-Z_][a-zA-Z0-9_]*)\[(\d+)\]$/
ArrayAccessMatch(expr) ==
  LET i1 == SkipSet(expr, 1, IdentPart)
  IN  /\ CharAt(expr, 0) \in IdentStart
      /\ CharAt(expr, i1) = "["
      /\ EndsWith(expr, "]")
      /\ AllIn(Substring(expr, i1 + 1, Len(expr) - 1), Digits)

\* ------------------------------------------------------------------------
\* _splitExpression
\* ------------------------------------------------------------------------

\* the quote bookkeeping shared by the three character scans of the source:
\* the scan state after reading character i of s
ScanQuote(s, i, inString, stringChar) ==
  LET isQuote == CharAt(s, i) \in {"\"", "'"} /\ (i = 0 \/ CharAt(s, i - 1) # "\\")
  IN  [inString |-> IF isQuote
                    THEN (IF ~inString THEN TRUE
                          ELSE IF CharAt(s, i) = stringChar THEN FALSE ELSE inString)
                    ELSE inString,
       stringChar |-> IF isQuote /\ ~inString THEN CharAt(s, i) ELSE stringChar]

\* the parenthesis depth after reading char outside a string
ScanDepth(char, inString, parenDepth) ==
  IF inString THEN parenDepth
  ELSE IF char = "(" THEN parenDepth + 1
  ELSE IF char = ")" THEN parenDepth - 1
  ELSE parenDepth

\* the next index from i on where a scan has something to do: a quote or a
\* parenthesis changes its bookkeeping there, or token stands there.  At
\* every index in between, an iteration of the loop leaves the scan's
\* variables as they are.  Len(s) when there is no such index.
ScanStop(s, i, token) ==
  Min({j \in i..(Len(s) - 1) :
         CharAt(s, j) \in {"\"", "'", "(", ")"} \/ StartsWithAt(s, token, j)}, Len(s))

\* the loop of lines 714-745, from iteration i on: index of the first
\* occurrence of operator outside strings and parentheses, or -1
RECURSIVE SplitScan(_, _, _, _, _, _)
SplitScan(expr, operator, i, inString, stringChar, parenDepth) ==
  IF i >= Len(expr) THEN -1
  ELSE LET q == ScanQuote(expr, i, inString, stringChar)
           depth == ScanDepth(CharAt(expr, i), q.inString, parenDepth)
       IN  IF ~q.inString /\ depth = 0 /\ StartsWithAt(expr, operator, i)
           THEN i
           ELSE SplitScan(expr, operator, ScanStop(expr, i + 1, operator),
                          q.inString, q.stringChar, depth)

\* the two parts of expr around the characters at..(at + width - 1), trimmed
SplitAt(expr, at, width) ==
  [ok |-> TRUE,
   left |-> Trim(SubSeq(expr, 1, at)),
   right |-> Trim(SubSeq(expr, at + width + 1, Len(expr)))]

\* ok = FALSE stands for the throw of line 756
SplitExpression(expr, operator) ==
  LET multIndex == IndexOfFrom(expr, "*", LastIndexOf(expr, ")"))
      at == SplitScan(expr, operator, ScanStop(expr, 0, operator), FALSE, "", 0)
      parts == Split(expr, operator)
  IN  CASE operator = "*" /\ Includes(expr, "(") /\ Includes(expr, ")") /\ multIndex > 0 ->
             SplitAt(expr, multIndex, 1)
        [] at # -1 -> SplitAt(expr, at, Len(operator))
        [] operator \in {"&&", "||"} /\ Len(parts) = 2 ->
             [ok |-> TRUE, left |-> Trim(parts[1]), right |-> Trim(parts[2])]
        [] OTHER -> [ok |-> FALSE, left |-> "", right |-> ""]

\* ------------------------------------------------------------------------
\* The state an evaluation works on, and its outcomes
\* ------------------------------------------------------------------------

\* this.environment is a partial function from keys to values.  An
\* evaluation state st is [env, ids]: the environment and the identities of
\* the Array objects alive so far.
Has(env, key) == key \in DOMAIN env
Put(env, key, value) ==
  [k \in (DOMAIN env) \cup {key} |-> IF k = key THEN value ELSE env[k]]
Delete(env, key) == [k \in (DOMAIN env) \ {key} |-> env[k]]

SetIt(st, item) == [st EXCEPT !.env = Put(st.env, "@it", item)]
DeleteIt(st) == [st EXCEPT !.env = Delete(st.env, "@it")]

\* a normal return of value v, and a throw of new Error(msg); st is the
\* state at that point
Ret(v, st) == [ok |-> TRUE, val |-> v, msg |-> "", st |-> st]
Throw(msg, st) == [ok |-> FALSE, val |-> Undefined, msg |-> msg, st |-> st]

\* a newly created Array object with elements a
NewArray(a, st) ==
  LET id == Min({i \in 0..Cardinality(st.ids) : i \notin st.ids}, 0)
  IN  Ret(Arr(id, a), [st EXCEPT !.ids = @ \cup {id}])

\* the value of "left OP right" once both operands are evaluated
ApplyOperator(operator, loose, l, r) ==
  Let(Primitives(l, r), LAMBDA p : BinaryOperation(operator, loose, l, r, p, Numbers(p)))

\* the binary operators of lines 307-386 in the order the source looks for
\* them, and the first one the text of expr contains ("" when none)
BinaryOperators ==
  <<"==", "!=", ">=", "<=", ">", "<", "+", "-", "*", "/", "&&", "||">>

OperatorApplies(expr, operator) ==
  Includes(expr, operator) /\ (operator = "-" => ~StartsWith(expr, "-"))

FirstOperator(expr) ==
  LET k == Min({j \in 1..Len(BinaryOperators) : OperatorApplies(expr, BinaryOperators[j])}, 0)
  IN  IF k = 0 THEN "" ELSE BinaryOperators[k]

\* the scan of lines 426-450, from iteration i on: index of the ")" that
\* closes the call
RECURSIVE CloseParenScan(_, _, _, _, _)
CloseParenScan(expr, i, inString, stringChar, parenDepth) ==
  IF i >= Len(expr) THEN Len(expr) - 1
  ELSE LET q == ScanQuote(expr, i, inString, stringChar)
       IN  IF ~q.inString /\ CharAt(expr, i) = ")" /\ parenDepth = 0 THEN i
           ELSE CloseParenScan(expr, ScanStop(expr, i + 1, ")"), q.inString, q.stringChar,
                               ScanDepth(CharAt(expr, i), q.inString, parenDepth))

\* new RegExp(pattern).test(text) for patterns built from literal
\* characters, ".", a postfix "*", a leading "^" and a trailing "$"
RECURSIVE RegexHere(_, _)
RegexHere(pattern, text) ==
  IF pattern = "" THEN TRUE
  ELSE IF pattern = "$" THEN text = ""
  ELSE IF CharAt(pattern, 1) = "*"
    THEN \E k \in 0..Len(text) :
           /\ \A j \in 0..(k - 1) : CharAt(pattern, 0) \in {".", CharAt(text, j)}
           /\ RegexHere(SubstringFrom(pattern, 2), SubstringFrom(text, k))
  ELSE /\ text # ""
       /\ CharAt(pattern, 0) \in {".", CharAt(text, 0)}
       /\ RegexHere(Tail(pattern), Tail(text))

RegexTest(pattern, text) ==
  IF StartsWith(pattern, "^") THEN RegexHere(Tail(pattern), text)
  ELSE \E k \in 0..Len(text) : RegexHere(pattern, SubstringFrom(text, k))

\* Math.trunc of a finite Number, as substring() takes its arguments
\* (NaN counts as 0, +-Infinity as a position beyond every string)
ToInteger(x) ==
  IF IsNaN(x) THEN 0
  ELSE IF x.d = 0 THEN x.n * 1000000
  ELSE Sign(x.n) * (Abs(x.n) \div x.d)

\* the switch of lines 518-605
ApplyFunction(functionName, args, st) ==
  LET isText(v) == v.t = "str"
      isSized(v) == v.t \in {"str", "arr"}
      size(v) == IF v.t = "str" THEN Len(v.s) ELSE Len(v.a)
  IN
  IF functionName = "len" THEN
    IF Len(args) # 1 THEN Throw("len() requires exactly one argument", st)
    ELSE IF isSized(args[1]) THEN Ret(Num(size(args[1])), st)
    ELSE Throw("len() argument must be a string or array", st)
  ELSE IF functionName = "contains" THEN
    IF Len(args) # 2 THEN Throw("contains() requires exactly two arguments", st)
    ELSE IF isText(args[1]) /\ isText(args[2])
      THEN Ret(Bool(args[2].s = "" \/ Includes(args[1].s, args[2].s)), st)
    ELSE IF args[1].t = "arr" THEN Ret(Bool(ArrayIncludes(args[1], args[2])), st)
    ELSE Throw("contains() first argument must be a string or array", st)
  ELSE IF functionName = "startsWith" THEN
    IF Len(args) # 2 THEN Throw("startsWith() requires exactly two arguments", st)
    ELSE IF isText(args[1]) /\ isText(args[2])
      THEN Ret(Bool(StartsWith(args[1].s, args[2].s)), st)
    ELSE Throw("startsWith() arguments must be strings", st)
  ELSE IF functionName = "endsWith" THEN
    IF Len(args) # 2 THEN Throw("endsWith() requires exactly two arguments", st)
    ELSE IF isText(args[1]) /\ isText(args[2])
      THEN Ret(Bool(EndsWith(args[1].s, args[2].s)), st)
    ELSE Throw("endsWith() arguments must be strings", st)
  ELSE IF functionName = "substring" THEN
    IF Len(args) # 3 THEN Throw("substring() requires exactly three arguments", st)
    ELSE IF isText(args[1]) /\ args[2].t = "num" /\ args[3].t = "num"
      THEN Ret(Str(Substring(args[1].s, ToInteger(args[2]), ToInteger(args[3]))), st)
    ELSE Throw("substring() invalid arguments", st)
  ELSE IF functionName = "isEmpty" THEN
    IF Len(args) # 1 THEN Throw("isEmpty() requires exactly one argument", st)
    ELSE IF isSized(args[1]) THEN Ret(Bool(size(args[1]) = 0), st)
    ELSE Throw("isEmpty() argument must be a string or array", st)
  ELSE IF functionName = "matches" THEN
    IF Len(args) # 2 THEN Throw("matches() requires exactly two arguments", st)
    ELSE IF isText(args[1]) /\ isText(args[2])
      THEN Ret(Bool(RegexTest(args[2].s, args[1].s)), st)
    ELSE Throw("matches() arguments must be strings", st)
  ELSE Throw("Unknown function: " \o functionName, st)

\* ------------------------------------------------------------------------
\* _evaluateExpression, _evaluateFunctionCall, _parseArguments
\* ------------------------------------------------------------------------

ItError == "Variable @it is only available within collection function predicates"

RECURSIVE EvaluateExpression(_, _)
RECURSIVE EvaluateTrimmed(_, _)
RECURSIVE EvaluateOperators(_, _)
RECURSIVE EvaluateElements(_, _, _, _)
RECURSIVE EvaluateFunctionCall(_, _)
RECURSIVE FunctionCallCollectionLoop(_, _, _, _, _, _)
RECURSIVE ParseArguments(_, _)
RECURSIVE ParseArgumentsLoop(_, _, _, _, _, _, _, _)

\* lines 213-256: expr starts with a group (...) that ends at groupEnd and is
\* followed, at opAt, by an arithmetic operator and anything, or by && / ||
\* and a second group.  The arms are tried in the order written.
EvaluateGroups(expr, groupEnd, opAt, st) ==
  LET arithmetic == ParenArithmeticMatch(expr, groupEnd, opAt)
      l == EvaluateExpression(SubSeq(expr, 1, groupEnd + 1), st)
      r == EvaluateExpression(
             SubstringFrom(expr, IF arithmetic THEN opAt + 1 ELSE SkipWS(expr, opAt + 2)),
             l.st)
  IN  CASE ~l.ok -> l
        [] ~arithmetic /\ StartsWithAt(expr, "&&", opAt) /\ ~Truthy(l.val) ->
             Ret(Bool(FALSE), l.st)
        [] ~arithmetic /\ StartsWithAt(expr, "||", opAt) /\ Truthy(l.val) ->
             Ret(Bool(TRUE), l.st)
        [] ~r.ok \/ ~arithmetic -> r
        \* (2 + 3) * 4: no check of a zero divisor on this path
        [] OTHER -> Ret(ApplyOperator(CharAt(expr, opAt), FALSE, l.val, r.val), r.st)

\* lines 280-300 without the bounds check of lines 295-297
EvaluateArrayAccessUnchecked(expr, st) ==
  LET varName == SubSeq(expr, 1, IndexOf(expr, "["))
      index == DigitsToNat(Substring(expr, IndexOf(expr, "[") + 1, Len(expr) - 1))
  IN  IF ~Has(st.env, varName)
        THEN Throw("Variable '" \o varName \o "' is not defined", st)
      ELSE IF st.env[varName].t # "arr"
        THEN Throw("Variable '" \o varName \o "' is not an array", st)
      ELSE IF index >= Len(st.env[varName].a) THEN Ret(Undefined, st)
      ELSE Ret(st.env[varName].a[index + 1], st)

\* lines 280-300
EvaluateArrayAccess(expr, st) ==
  LET varName == SubSeq(expr, 1, IndexOf(expr, "["))
      index == DigitsToNat(Substring(expr, IndexOf(expr, "[") + 1, Len(expr) - 1))
  IN  IF ~Has(st.env, varName)
        THEN Throw("Variable '" \o varName \o "' is not defined", st)
      ELSE IF st.env[varName].t # "arr"
        THEN Throw("Variable '" \o varName \o "' is not an array", st)
      ELSE IF index >= Len(st.env[varName].a)
        THEN Throw("Index out of bounds: " \o NatToString(index), st)
      ELSE Ret(st.env[varName].a[index + 1], st)

\* lines 138-305 on the trimmed text: everything before the operator
\* cascade.  The arms are tried in the order written, as the if statements
\* of the source are; the first one whose condition holds returns.
EvaluateTrimmed(expr, st) ==
  LET itOp == ItComparisonMatch(expr)
      groupEnd == LeadingGroupEnd(expr, 0)
      opAt == SkipWS(expr, groupEnd + 1)
  IN  CASE expr = "" -> Throw("Empty expression", st)
        [] Includes(expr, "@it") /\ ~Has(st.env, "@it") -> Throw(ItError, st)
        [] expr = "@it" -> Ret(st.env["@it"], st)
        [] Includes(expr, "@it") /\ itOp # 0 ->
             Ret(ApplyOperator(ItComparisonOps[itOp], TRUE, st.env["@it"],
                               ParseFloat(ItComparisonNumber(expr, itOp))), st)
        [] expr \in {"true", "True"} -> Ret(Bool(TRUE), st)
        [] expr \in {"false", "False"} -> Ret(Bool(FALSE), st)
        [] /\ Includes(expr, "(") /\ Includes(expr, ")")
           /\ \/ ParenArithmeticMatch(expr, groupEnd, opAt)
              \/ ParenLogicalMatch(expr, groupEnd, opAt) ->
             EvaluateGroups(expr, groupEnd, opAt, st)
        [] StartsWith(expr, "(") /\ EndsWith(expr, ")") ->
             EvaluateExpression(Substring(expr, 1, Len(expr) - 1), st)
        [] \/ (StartsWith(expr, "\"") /\ EndsWith(expr, "\""))
           \/ (StartsWith(expr, "'") /\ EndsWith(expr, "'")) ->
             Ret(Str(Substring(expr, 1, Len(expr) - 1)), st)
        [] StartsWith(expr, "[") /\ EndsWith(expr, "]") ->
             IF Trim(Substring(expr, 1, Len(expr) - 1)) = "" THEN NewArray(<<>>, st)
             ELSE EvaluateElements(Split(Trim(Substring(expr, 1, Len(expr) - 1)), ","),
                                   1, <<>>, st)
        [] ArrayAccessMatch(expr) -> EvaluateArrayAccess(expr, st)
        [] Includes(expr, "(") /\ EndsWith(expr, ")") -> EvaluateFunctionCall(expr, st)
        [] OTHER -> EvaluateOperators(expr, st)

\* lines 135-408; line 136: expr = expr.trim()
EvaluateExpression(expr, st) == EvaluateTrimmed(Trim(expr), st)

\* line 277: content.split(',').map(item => this._evaluateExpression(item.trim()))
EvaluateElements(items, i, acc, st) ==
  IF i > Len(items) THEN NewArray(acc, st)
  ELSE LET r == EvaluateExpression(Trim(items[i]), st)
       IN  IF ~r.ok THEN r
           ELSE EvaluateElements(items, i + 1, Append(acc, r.val), r.st)
\* lines 307-386: left OP right.  "/" evaluates its divisor first and checks it for
\* zero; && and || return the left value without evaluating the right one
\* when it decides; every other operator evaluates left, then right.  The
\* arms are tried in the order written.
EvaluateOperands(operator, left, right, st) ==
  LET first == EvaluateExpression(IF operator = "/" THEN right ELSE left, st)
      second == EvaluateExpression(IF operator = "/" THEN left ELSE right, first.st)
  IN  CASE ~first.ok -> first
        [] operator = "/" /\ first.val.t = "num" /\ NumEq(first.val, Num(0)) ->
             Throw("Division by zero", first.st)
        [] operator = "&&" /\ ~Truthy(first.val) -> first
        [] operator = "||" /\ Truthy(first.val) -> first
        [] ~second.ok \/ operator \in {"&&", "||"} -> second
        [] OTHER -> Ret(ApplyOperator(operator, FALSE,
                                      IF operator = "/" THEN second.val ELSE first.val,
                                      IF operator = "/" THEN first.val ELSE second.val),
                        second.st)

\* lines 307-386: the branch of the first operator of the cascade that the
\* text contains; the throw is that of _splitExpression (line 756)
EvaluateBinary(expr, operator, st) ==
  LET sp == SplitExpression(expr, operator)
  IN  IF ~sp.ok THEN
        Throw("Operator '" \o operator \o "' not found in expression: " \o expr, st)
      ELSE EvaluateOperands(operator, sp.left, sp.right, st)

\* lines 388-391
EvaluateNot(expr, st) ==
  LET operand ==
        EvaluateExpression(SubstringFrom(expr, IF StartsWith(expr, "!") THEN 1 ELSE 4), st)
  IN  IF ~operand.ok THEN operand ELSE Ret(Bool(~Truthy(operand.val)), operand.st)

\* the text is a literal number or a variable (lines 393-407)
EvaluateAtom(expr, number, st) ==
  IF ~IsNaN(number) THEN Ret(number, st)
  ELSE IF IsIdentifier(expr) THEN
    IF Has(st.env, expr) THEN Ret(st.env[expr], st)
    ELSE Throw("Variable '" \o expr \o "' is not defined", st)
  ELSE Throw("Unknown expression: " \o expr, st)

\* lines 307-407: the operator cascade, unary not, literals and variables
EvaluateOperators(expr, st) ==
  LET operator == FirstOperator(expr)
  IN  IF operator # "" THEN EvaluateBinary(expr, operator, st)
      ELSE IF StartsWith(expr, "!") \/ StartsWith(expr, "not ") THEN EvaluateNot(expr, st)
      ELSE EvaluateAtom(expr, ParseFloat(expr), st)

\* lines 480-511: the callbacks of filter / every / some with their
\* try ... finally { delete this.environment['@it'] }, from element i on.
\* The arms are tried in the order written.
FunctionCallCollectionLoop(functionName, items, i, predicate, acc, st) ==
  LET r == EvaluateExpression(predicate, SetIt(st, items[i]))
  IN  CASE i > Len(items) ->
             IF functionName = "filter" THEN NewArray(acc, st)
             ELSE Ret(Bool(functionName = "all"), st)
        [] ~r.ok -> Throw(r.msg, DeleteIt(r.st))
        [] functionName = "all" /\ ~Truthy(r.val) -> Ret(Bool(FALSE), DeleteIt(r.st))
        [] functionName = "any" /\ Truthy(r.val) -> Ret(Bool(TRUE), DeleteIt(r.st))
        [] OTHER ->
             FunctionCallCollectionLoop(functionName, items, i + 1, predicate,
               IF Truthy(r.val) THEN Append(acc, items[i]) ELSE acc, DeleteIt(r.st))

\* lines 455-512: filter / all / any with a predicate over @it
EvaluateCollectionCall(functionName, argsString, st) ==
  LET commaIndex == IndexOf(argsString, ",")
      predicateExpr == Trim(SubstringFrom(argsString, commaIndex + 1))
      collection == EvaluateExpression(Trim(Substring(argsString, 0, commaIndex)), st)
  IN  IF commaIndex = -1 THEN Throw(functionName \o "() requires two arguments", st)
      ELSE IF ~StartsWith(predicateExpr, "{") \/ ~EndsWith(predicateExpr, "}")
        THEN Throw(functionName \o "() predicate must be enclosed in {}", st)
      ELSE IF ~collection.ok THEN collection
      ELSE IF collection.val.t # "arr"
        THEN Throw(functionName \o "() first argument must be an array", collection.st)
      ELSE FunctionCallCollectionLoop(functionName, collection.val.a, 1,
             Trim(Substring(predicateExpr, 1, Len(predicateExpr) - 1)),
             <<>>, collection.st)

\* lines 515-605: the arguments, then the switch
EvaluateCall(functionName, argsString, st) ==
  LET args == IF argsString = "" THEN Ret(<<>>, st) ELSE ParseArguments(argsString, st)
  IN  IF ~args.ok THEN args ELSE ApplyFunction(functionName, args.val, args.st)

\* lines 416-606
EvaluateFunctionCall(expr, st) ==
  LET openParenIndex == IndexOf(expr, "(")
      functionName == Trim(Substring(expr, 0, openParenIndex))
      argsString ==
        Trim(Substring(expr, openParenIndex + 1,
               CloseParenScan(expr, ScanStop(expr, openParenIndex + 1, ")"), FALSE, "", 0)))
  IN  IF functionName \in {"filter", "all", "any"} /\ Includes(argsString, "{@it")
      THEN EvaluateCollectionCall(functionName, argsString, st)
      ELSE EvaluateCall(functionName, argsString, st)

\* lines 643-685, from iteration i on: val is the list of evaluated
\* arguments.  currentArg is what the loop has appended since the last
\* separating comma: the text from index argStart up to i.
ParseArgumentsLoop(argsString, i, argStart, inString, stringChar, parenDepth, args, st) ==
  LET q == ScanQuote(argsString, i, inString, stringChar)
      depth == ScanDepth(CharAt(argsString, i), q.inString, parenDepth)
      arg == EvaluateExpression(Trim(SubSeq(argsString, argStart + 1, i)), st)
  IN  IF i >= Len(argsString) /\ Trim(SubSeq(argsString, argStart + 1, Len(argsString))) = ""
        THEN Ret(args, st)
      ELSE IF i >= Len(argsString) \/ (CharAt(argsString, i) = "," /\ ~q.inString /\ depth = 0)
        THEN \* args.push(this._evaluateExpression(currentArg.trim()))
          IF ~arg.ok THEN arg
          ELSE IF i >= Len(argsString) THEN Ret(Append(args, arg.val), arg.st)
          ELSE ParseArgumentsLoop(argsString, ScanStop(argsString, i + 1, ","), i + 1,
                                  q.inString, q.stringChar, depth,
                                  Append(args, arg.val), arg.st)
      ELSE ParseArgumentsLoop(argsString, ScanStop(argsString, i + 1, ","), argStart,
                              q.inString, q.stringChar, depth, args, st)

\* lines 614-640: the arguments of a call whose text contains "{@it"
ParsePredicateArguments(argsString, st) ==
  LET commaIndex == IndexOf(argsString, ",")
      predicateExpr == Trim(SubstringFrom(argsString, commaIndex + 1))
      firstArgValue == EvaluateExpression(Trim(Substring(argsString, 0, commaIndex)), st)
  IN  IF commaIndex = -1 THEN Throw("Invalid function arguments", st)
      ELSE IF ~StartsWith(predicateExpr, "{") \/ ~EndsWith(predicateExpr, "}")
        THEN Throw("Predicate must be enclosed in {}", st)
      ELSE IF ~firstArgValue.ok THEN firstArgValue
      ELSE Ret(<<firstArgValue.val, PredicateObject>>, firstArgValue.st)

\* lines 614-686
ParseArguments(argsString, st) ==
  IF Includes(argsString, "{@it") THEN ParsePredicateArguments(argsString, st)
  ELSE ParseArgumentsLoop(argsString, ScanStop(argsString, 0, ","), 0, FALSE, "", 0, <<>>, st)

\* ------------------------------------------------------------------------
\* _evaluateStatement and evaluate
\* ------------------------------------------------------------------------

\* lines 114-118
IsAssignment(statement) ==
  /\ Includes(statement, "=")
  /\ ~Includes(statement, "==")
  /\ ~Includes(statement, ">=")
  /\ ~Includes(statement, "<=")
  /\ ~Includes(statement, "!=")

\* lines 110-127
EvaluateStatement(statement0, st) ==
  Let(Trim(statement0), LAMBDA statement :
  Let(Split(statement, "="), LAMBDA parts :
  Let(EvaluateExpression(IF IsAssignment(statement) THEN Trim(parts[2]) ELSE statement, st),
      LAMBDA value :
    IF ~value.ok \/ ~IsAssignment(statement) THEN value
    ELSE Ret(value.val, [value.st EXCEPT !.env = Put(@, Trim(parts[1]), value.val)]))))

\* lines 40-43 and 97: the statements from the i-th on; last is the value of
\* the one before (Undefined when there is none)
RECURSIVE EvaluateStatements(_, _, _, _)
EvaluateStatements(statements, i, last, st) ==
  IF i > Len(statements) THEN Ret(last, st)
  ELSE Let(EvaluateStatement(statements[i], st), LAMBDA r :
         IF ~r.ok THEN r
         ELSE EvaluateStatements(statements, i + 1, r.val, r.st))

\* line 37: expr.split(';').map(stmt => stmt.trim()).filter(stmt => stmt.length > 0)
SplitStatements(expr) ==
  Let(Split(expr, ";"), LAMBDA parts :
    SelectSeq([i \in 1..Len(parts) |-> Trim(parts[i])], LAMBDA stmt : Len(stmt) > 0))

\* lines 65-88: the callbacks of filter / every / some of the top-level
\* special case, from element i on; the delete is skipped when the
\* predicate throws.  The arms are tried in the order written.
RECURSIVE TopLevelCollectionLoop(_, _, _, _, _, _)
TopLevelCollectionLoop(functionName, items, i, predicate, acc, st) ==
  IF i > Len(items) THEN
    IF functionName = "filter" THEN NewArray(acc, st)
    ELSE Ret(Bool(functionName = "all"), st)
  ELSE Let(EvaluateExpression(predicate, SetIt(st, items[i])), LAMBDA r :
         CASE ~r.ok -> r
           [] functionName = "all" /\ ~Truthy(r.val) -> Ret(Bool(FALSE), DeleteIt(r.st))
           [] functionName = "any" /\ Truthy(r.val) -> Ret(Bool(TRUE), DeleteIt(r.st))
           [] OTHER ->
                TopLevelCollectionLoop(functionName, items, i + 1, predicate,
                  IF Truthy(r.val) THEN Append(acc, items[i]) ELSE acc, DeleteIt(r.st)))

\* What a call of evaluate hands to its caller: an object
\* {success: true, result} or {success: false, error}, or an exception that
\* leaves the call.
Success(text) == [success |-> TRUE, result |-> text]
Failure(text) == [success |-> FALSE, error |-> text]
Escaped(text) == [thrown |-> text]

\* the identities of the Array objects reachable from a value / from env
RECURSIVE ArrayIds(_)
ArrayIds(v) ==
  IF v.t = "arr" THEN {v.id} \cup UNION {ArrayIds(v.a[i]) : i \in 1..Len(v.a)}
  ELSE {}

EnvIds(env) == UNION {ArrayIds(env[k]) : k \in DOMAIN env}

\* what the try block of lines 26-98 does: it returns obj, or throws an
\* error with message msg; st is the state at that point
Return(obj, st) == [thrown |-> FALSE, ret |-> obj, st |-> st]
Raise(msg, st) == [thrown |-> TRUE, ret |-> Failure(msg), st |-> st]

\* lines 28-33
EvaluateQuotedEquals(expr, st) ==
  Let(Split(expr, "=="), LAMBDA parts :
    Return(Success(IF Substring(Trim(parts[1]), 1, Len(Trim(parts[1])) - 1)
                      = Substring(Trim(parts[2]), 1, Len(Trim(parts[2])) - 1)
                   THEN "True" ELSE "False"), st))

\* lines 36-46 and 97-98: the statements of the text, one after the other
EvaluateSequence(statements, st) ==
  Let(EvaluateStatements(statements, 1, Undefined, st), LAMBDA seq :
    IF ~seq.ok THEN Raise(seq.msg, seq.st)
    ELSE IF statements = <<>>
      THEN Raise("Cannot read properties of undefined (reading 'value')", seq.st)
    ELSE Return(Success(FormatValue(seq.val)), seq.st))

\* lines 51-94
EvaluateTopLevelCollection(cm, st) ==
  IF ~Has(st.env, cm.collectionName)
    THEN Return(Failure("Variable '" \o cm.collectionName \o "' is not defined"), st)
  ELSE IF st.env[cm.collectionName].t # "arr"
    THEN Return(Failure("Variable '" \o cm.collectionName \o "' is not an array"), st)
  ELSE Let(TopLevelCollectionLoop(cm.functionName, st.env[cm.collectionName].a, 1,
                                  cm.predicate, <<>>, st), LAMBDA loop :
         IF ~loop.ok
           THEN Return(Failure("Error evaluating " \o cm.functionName \o "(): " \o loop.msg),
                       loop.st)
         ELSE Return(Success(FormatValue(loop.val)), loop.st))

\* lines 26-98, the body of the try block
EvaluateTry(expr, st) ==
  Let(CollectionCallMatch(expr), LAMBDA cm :
    IF QuotedEqualsMatch(expr, "\"") \/ QuotedEqualsMatch(expr, "'")
      THEN EvaluateQuotedEquals(expr, st)
    ELSE IF ~Includes(expr, ";") /\ cm.prefix /\ cm.full
      THEN EvaluateTopLevelCollection(cm, st)
    ELSE EvaluateSequence(IF Includes(expr, ";") THEN SplitStatements(expr) ELSE <<expr>>, st))

\* evaluate without its outer try ... catch: an error thrown by the body
\* leaves the call
EvaluateWithoutCatch(expr, env) ==
  IF Trim(expr) = "" THEN [out |-> Failure("Expression cannot be empty"), env |-> env]
  ELSE Let(EvaluateTry(expr, [env |-> env, ids |-> EnvIds(env)]), LAMBDA body :
         IF body.thrown
           THEN [out |-> Escaped(body.ret.error), env |-> body.st.env]
         ELSE [out |-> body.ret, env |-> body.st.env])

\* lines 21-102: evaluate(expr) called on a parser whose environment is env;
\* out is what the caller gets, env the environment afterwards
Evaluate(expr, env) ==
  IF Trim(expr) = "" THEN [out |-> Failure("Expression cannot be empty"), env |-> env]
  ELSE Let(EvaluateTry(expr, [env |-> env, ids |-> EnvIds(env)]), LAMBDA body :
         IF body.thrown
           THEN [out |-> Failure("Error evaluating expression: " \o body.ret.error),
                 env |-> body.st.env]
         ELSE [out |-> body.ret, env |-> body.st.env])

\* lines 9-14: the constructor
InitialEnvironment ==
  [k \in {"myCollection"} |-> Arr(0, <<Num(1), Num(2), Num(3)>>)]

\* ------------------------------------------------------------------------
\* Bounds and the input texts the calls are drawn from
\* ------------------------------------------------------------------------

\* numeric literals of generated inputs are 0..MaxLit
MaxLit == 2
\* arrays bound to the variable c have at most MaxLen elements
MaxLen == 2
\* values assigned by the calls of a session are 0..MaxVal
MaxVal == 1

Lits == 0..MaxLit
Lit(n) == NatToString(n)

\* the variables a session assigns and reads back
Names == {"x", "Infinity"}

Assignment(name, n) == name \o " = " \o Lit(n)

CollectionFunctions == {"filter", "all", "any"}
CollectionCall(functionName, collection, predicate) ==
  functionName \o "(" \o collection \o ", {" \o predicate \o "})"

\* the calls of a session
SessionInputs ==
  {Assignment(name, n) : name \in Names, n \in 0..MaxVal}
    \cup Names
    \cup {"y", "x + 1", "x = 1/0", "x = 2; undefinedVar", " ", "@it", "@it = 5",
          CollectionCall("filter", "myCollection", "@it > 1"),
          CollectionCall("filter", "myCollection", "@it > y"),
          CollectionCall("any", "myCollection", "@it > y")}

\* arrays the variable c is bound to, and their literal text
Arrays == UNION {[1..k -> Lits] : k \in 0..MaxLen}
ArrayText(a) == "[" \o JoinStrings([i \in 1..Len(a) |-> Lit(a[i])], ", ") \o "]"

\* a + b * c, b * c + a, (a + b) * c, c * (a + b)
SumProduct(a, b, c) == Lit(a) \o " + " \o Lit(b) \o " * " \o Lit(c)
ProductSum(a, b, c) == Lit(b) \o " * " \o Lit(c) \o " + " \o Lit(a)
GroupTimes(a, b, c) == "(" \o Lit(a) \o " + " \o Lit(b) \o ") * " \o Lit(c)
TimesGroup(a, b, c) == Lit(c) \o " * (" \o Lit(a) \o " + " \o Lit(b) \o ")"

PrecedenceInputs ==
  UNION {{SumProduct(a, b, c), ProductSum(a, b, c), GroupTimes(a, b, c), TimesGroup(a, b, c)} :
         a \in Lits, b \in Lits, c \in Lits}

\* L / R where R evaluates to the number 0 (zero is a variable bound to 0)
Dividends ==
  {Lit(a) : a \in Lits} \cup {"(" \o Lit(a) \o ")" : a \in Lits} \cup {"x"}
    \cup {"(" \o Lit(a) \o " + " \o Lit(b) \o ")" : a \in Lits, b \in Lits}
ZeroDivisors == {"0", "0.0", "zero", "(0)", "(zero)"}
Quotient(l, r) == l \o " / " \o r
DivisionInputs == {Quotient(l, r) : l \in Dividends, r \in ZeroDivisors}

\* L && R with L false, L || R with L true, and R an operand whose
\* evaluation raises an error
FalseOperands == {"false", "False", "(false)"}
TrueOperands == {"true", "True", "(true)"}
FailingOperands ==
  {"(" \o Lit(a) \o "/0 == 0)" : a \in Lits} \cup {"undefinedVar", "(undefinedVar)"}
ShortCircuitInputs ==
  {l \o " && " \o r : l \in FalseOperands, r \in FailingOperands}
    \cup {l \o " || " \o r : l \in TrueOperands, r \in FailingOperands}

\* the predicates  @it OP n,  @it > a && @it < b  and  @it - 1 / @it
ComparisonPredicate(op, n) == "@it " \o op \o " " \o Lit(n)
BetweenPredicate(a, b) == "@it > " \o Lit(a) \o " && @it < " \o Lit(b)
ReciprocalPredicate == "@it - 1 / @it"
ComparisonOps == {">", "<", ">=", "<=", "==", "!="}

Predicates ==
  {ComparisonPredicate(op, n) : op \in ComparisonOps, n \in Lits}
    \cup {BetweenPredicate(a, b) : a \in Lits, b \in Lits}
    \cup {ReciprocalPredicate}

\* filter / all / any on the variable c, and on an array literal
VariableCollectionInputs ==
  {CollectionCall(f, "c", p) : f \in CollectionFunctions, p \in Predicates}
LiteralCollectionInputs ==
  {CollectionCall(f, ArrayText(a), ComparisonPredicate(">", n)) :
     f \in CollectionFunctions, a \in Arrays, n \in Lits}
    \cup {"filter([1,2,3], {@it > 1})"}

\* a predicate that calls a collection function and reads @it afterwards
NestedPredicate(op, inner, n) ==
  "@it " \o op \o " " \o CollectionCall(inner, "myCollection", ComparisonPredicate(op, n))
         \o " " \o op \o " @it"
NestedCollectionInputs ==
  {CollectionCall(outer, "c", NestedPredicate(op, inner, n)) :
     outer \in CollectionFunctions, inner \in CollectionFunctions,
     op \in {"==", "!="}, n \in Lits}

\* sequences of at most MaxStatements statements
MaxStatements == 2
Statements ==
  {"x = 0", "y = 1", "x = 1/0", "undefinedVar",
   CollectionCall("filter", "myCollection", "@it > undefinedVar")}
StatementSequences == UNION {[1..k -> Statements] : k \in 1..MaxStatements}
SequenceInputs == {JoinStrings(ss, "; ") : ss \in StatementSequences}

\* ill-formed and borderline texts
RawInputs ==
  {"", " ", "\t ", ";", " ; ", "(", ")", "()", "\"", "'", "x =", "= 5", "[", "[1,", "[,]",
   "len(", "len()", "len(1)", "x(", "1 +", "+", "!", "not ", "@it", "{", "#", "5abc",
   "c[9]", "x[0]", "nope[0]", "filter(c, {@it", "filter(c, {@it})", "filter(x, {@it > 1})",
   "filter(nope, {@it > 1})", "any(c)", "\"a\" == \"a\"", "'a' == 'b'", "\"a\" + 1",
   "matches(\"ab\", \"^a.*$\")", "substring(\"hello\", 1, 3)", "contains(c, 1)"}

\* name[i] and name[-i] for an array of every length up to MaxLen, the
\* three-element myCollection, a number (x) and an unbound name
IndexedNames == {"c", "myCollection", "x", "nope"}
Indices == 0..(MaxLen + 1)
ArrayAccess(name, i) == name \o "[" \o Lit(i) \o "]"
NegativeAccess(name, i) == name \o "[-" \o Lit(i) \o "]"
ArrayAccessInputs ==
  {ArrayAccess(name, i) : name \in IndexedNames, i \in Indices}
    \cup {NegativeAccess(name, i) : name \in IndexedNames, i \in Indices \ {0}}

\* the texts a single call is drawn from
CallInputs ==
  PrecedenceInputs \cup DivisionInputs \cup ShortCircuitInputs
    \cup VariableCollectionInputs \cup LiteralCollectionInputs
    \cup NestedCollectionInputs \cup SequenceInputs \cup RawInputs
    \cup ArrayAccessInputs

\* the environments such a call starts from: those a session reaches by
\* binding c to an array, zero to 0 and x to 7
Setup(a) == "c = " \o ArrayText(a) \o "; zero = 0; x = 7"
StartEnvironments == {Evaluate(Setup(a), InitialEnvironment).env : a \in Arrays}

\* ------------------------------------------------------------------------
\* The session: one parser object and the calls made on it
\* ------------------------------------------------------------------------

VARIABLES
  environment,  \* this.environment
  input,        \* the text of the latest call of evaluate ("" before any)
  result,       \* what that call handed back (NoCall before it has run)
  before,       \* history: this.environment when that call started
  assigned,     \* history: per name, the text shown by the latest successful
                \* call "name = v" ("" when none, or when a later call
                \* contains another assignment to the name)
  frame         \* the innermost active call of _evaluateExpression: its
                \* argument expr, whether this.environment holds @it, and
                \* the number of active calls (NoFrame while none is followed)

vars == <<environment, input, result, before, assigned, frame>>

NoCall == [none |-> TRUE]
NoFrame == [none |-> TRUE]
Called == result # NoCall

\* statement is of the form  name = e  (and not  name == e)
IsAssignmentTo(statement, name) ==
  /\ StartsWith(statement, name)
  /\ CharAt(statement, SkipWS(statement, Len(name))) = "="
  /\ CharAt(statement, SkipWS(statement, Len(name)) + 1) # "="

\* some statement of the call text is an assignment to name
AssignsTo(expr, name) ==
  Let(Split(expr, ";"), LAMBDA parts :
    \E i \in 1..Len(parts) : IsAssignmentTo(Trim(parts[i]), name))

\* evaluate(expr) is called on the parser
Call(expr) ==
  /\ input' = expr
  /\ before' = environment
  /\ frame' = frame
  /\ Let(Evaluate(expr, environment), LAMBDA r :
       /\ result' = r.out
       /\ environment' = r.env
       /\ assigned' = [name \in Names |->
            IF ~AssignsTo(expr, name) THEN assigned[name]
            ELSE IF ~Includes(expr, ";") /\ r.out.success THEN r.out.result
            ELSE ""])

Init ==
  /\ environment = InitialEnvironment
  /\ input = ""
  /\ result = NoCall
  /\ before = InitialEnvironment
  /\ assigned = [name \in Names |-> ""]
  /\ frame = NoFrame

Next == \E expr \in SessionInputs : Call(expr)

Spec == Init /\ [][Next]_vars

\* ------------------------------------------------------------------------
\* A single call on a parser in one of the start environments
\* ------------------------------------------------------------------------

CallInit ==
  /\ environment \in StartEnvironments
  /\ input \in CallInputs
  /\ result = NoCall
  /\ before = environment
  /\ assigned = [name \in Names |-> ""]
  /\ frame = NoFrame

RunCall == ~Called /\ Call(input)

CallNext == RunCall

CallSpec == CallInit /\ [][CallNext]_vars

\* ------------------------------------------------------------------------
\* A single call on a parser whose session has bound a variable of each kind
\* ------------------------------------------------------------------------

\* n is a number, t a string, b a boolean, s an array of a string and a
\* number, p and q two arrays with the same elements, r the array p is
\* bound to
TypedSetup ==
  "n = 2; t = \"2\"; b = true; s = [\"2\", 2]; p = [1, 2]; q = [1, 2]; r = p"
TypedEnvironment == Evaluate(TypedSetup, InitialEnvironment).env

\* L == R and L != R for operands that are arrays with equal elements:
\* variables bound by separate assignments, array literals, and (r, p) two
\* names of one stored array
EqualArrayOperands ==
  {<<"p", "q">>, <<"q", "p">>, <<"p", "[1, 2]">>, <<"[1, 2]", "q">>, <<"p", "r">>,
   <<"p", "p">>}
    \cup {<<ArrayText(a), ArrayText(a)>> : a \in Arrays}
Comparison(l, op, r) == l \o " " \o op \o " " \o r
ArrayEqualityInputs ==
  {Comparison(o[1], op, o[2]) : o \in EqualArrayOperands, op \in {"==", "!="}}

\* a number compared with a string: literals and the variables n and t
NumberOperands == {Lit(k) : k \in Lits} \cup {"n"}
StringOperands == {"\"" \o Lit(k) \o "\"" : k \in Lits} \cup {"t", "\"a\"", "''"}
MixedComparisonInputs ==
  UNION {{Comparison(l, op, r), Comparison(r, op, l)} :
         l \in NumberOperands, r \in StringOperands, op \in {"==", "!="}}
\* filter / all / any on s = ["2", 2] with the predicate @it == k or @it != k
MixedPredicateInputs ==
  {CollectionCall(f, "s", ComparisonPredicate(op, k)) :
     f \in CollectionFunctions, op \in {"==", "!="}, k \in Lits}

\* L OP R for OP one of + - * / where L or R is a string, a boolean or an
\* array (a literal or one of the variables t, b, p)
ArithmeticOps == {"+", "-", "*", "/"}
NonNumericOperands == {"t", "b", "p", "\"a\"", "true", "[1]"}
NonNumericArithmeticInputs ==
  UNION {{Comparison(l, op, r), Comparison(r, op, l)} :
         l \in NonNumericOperands, r \in NonNumericOperands \cup NumberOperands,
         op \in ArithmeticOps}

\* T = k for a left side T that is no single identifier
BadTargets == {"3", "p[0]", "@it", "x y", "n + 1", "(x)", "\"k\"", "x.y", "-x", ""}
BadTargetInputs == {Assignment(target, k) : target \in BadTargets, k \in Lits}

\* v = a OP k, an assignment whose right side is a comparison with two
\* characters, and the comparison statement n OP k
TwoCharOps == {"==", "!=", "<=", ">="}
ComparisonAssignment(a, op, k) == "v = " \o Comparison(Lit(a), op, Lit(k))
ComparisonAssignmentInputs ==
  {ComparisonAssignment(a, op, k) : a \in Lits, op \in TwoCharOps, k \in Lits}
ComparisonStatementInputs ==
  {Comparison("n", op, Lit(k)) : op \in TwoCharOps, k \in Lits}

\* double-quoted literals whose content has no quote character: plain text,
\* and text with the operators and punctuation of the language
Contents ==
  {"", "a", "a b", " a ", "1", "true", "n", "a;b", ";", "a=b", "n = 1", "a == b", "a+b",
   "a-b", "a*b", "a/b", "(a)", "(", "a,b", "[1]", "@it", "{@it > 1}", "a && b", "!a", "#"}
Quoted(c) == "\"" \o c \o "\""
StringLiteralInputs == {Quoted(c) : c \in Contents}

\* statements over the names x and y, which the session has not bound: a
\* form <<target, l, r>> is the statement  target = l + r, without
\* "target = " when target is "" and without " + r" when r is ""
StatementForms ==
  {<<name, Lit(k), "">> : name \in {"x", "y"}, k \in 0..MaxVal}
    \cup {<<"y", "x", "1">>, <<"x", "y", "">>, <<"", "x", "y">>, <<"", "y", "">>}
FormText(form) ==
  (IF form[1] = "" THEN "" ELSE form[1] \o " = ") \o form[2]
    \o (IF form[3] = "" THEN "" ELSE " + " \o form[3])
\* sequences of at most MaxStatements + 1 of them
FormSequences == UNION {[1..k -> StatementForms] : k \in 1..(MaxStatements + 1)}
FormSequenceText(forms) == JoinStrings([i \in 1..Len(forms) |-> FormText(forms[i])], "; ")
FormSequenceInputs == {FormSequenceText(forms) : forms \in FormSequences}
ExampleSequenceInputs == {"x = 5; y = 10; x + y", "a = [1, 2]; a[0] + a[1]"}
\* an assignment to the name Infinity, read by the statement after it
InfinitySequence(k) == Assignment("Infinity", k) \o "; y = Infinity + 1"
InfinitySequenceInputs == {InfinitySequence(k) : k \in 0..MaxVal}

\* texts with a character that is no part of the language, or with text
\* after a complete numeric literal
ForeignChars == {"#", "$", "~", "?", "^", "%", ":"}
NumericLiterals == {Lit(k) : k \in Lits} \cup {"1.5", "-1"}
UnrecognisedInputs ==
  ForeignChars
    \cup UNION {{l \o c, l \o " " \o c, c \o l, "n " \o c, "1 + " \o l \o c, "[" \o l \o c \o "]"} :
                l \in NumericLiterals, c \in ForeignChars}
    \cup UNION {{l \o "abc", l \o " abc", l \o "x", l \o " " \o l, l \o ".1.2"} :
                l \in NumericLiterals}

\* collection calls whose predicate raises an error for the first element:
\* at the top level of the text, and nested in the predicate of another call
\* (where _evaluateFunctionCall runs them)
FailingPredicates == {"@it > undefinedVar", "@it / 0 > 1", "@it + nope[0]"}
FailingCollectionInputs ==
  {CollectionCall(f, name, predicate) :
     f \in CollectionFunctions, name \in {"myCollection", "s"}, predicate \in FailingPredicates}
NestedFailingInputs ==
  {CollectionCall(f, "myCollection",
                  "@it != " \o CollectionCall(g, "p", predicate) \o " != @it") :
     f \in CollectionFunctions, g \in CollectionFunctions, predicate \in FailingPredicates}

\* a OP b OP c for one operator, twice
Chain(a, op, b, c) == Comparison(Comparison(Lit(a), op, Lit(b)), op, Lit(c))
ChainInputs == {Chain(a, op, b, c) : a \in Lits, op \in {"-", "/"}, b \in Lits, c \in Lits}

\* a < b && c < d  and  p && q == r, without parentheses
BooleanLiterals == {"true", "false"}
RelationalConjunction(a, b, c, d) ==
  Comparison(Comparison(Lit(a), "<", Lit(b)), "&&", Comparison(Lit(c), "<", Lit(d)))
ConjunctionEquality(p, q, r) == Comparison(p, "&&", Comparison(q, "==", r))
LogicalInputs ==
  {RelationalConjunction(a, b, c, d) : a \in Lits, b \in Lits, c \in Lits, d \in Lits}
    \cup {ConjunctionEquality(p, q, r) :
           p \in BooleanLiterals, q \in BooleanLiterals, r \in BooleanLiterals}

\* a OP -b  and  -a OP b
NegatedRight(a, op, b) == Comparison(Lit(a), op, "-" \o Lit(b))
NegatedLeft(a, op, b) == Comparison("-" \o Lit(a), op, Lit(b))
UnaryMinusInputs ==
  UNION {{NegatedRight(a, op, b), NegatedLeft(a, op, b)} :
         a \in Lits, op \in ArithmeticOps, b \in Lits}
    \cup {"-5 - 3", "3 * -5", "3 + -5"}

\* the texts such a call is drawn from
TypedInputs ==
  ArrayEqualityInputs \cup MixedComparisonInputs \cup MixedPredicateInputs
    \cup NonNumericArithmeticInputs \cup BadTargetInputs
    \cup ComparisonAssignmentInputs \cup ComparisonStatementInputs
    \cup StringLiteralInputs \cup FormSequenceInputs \cup ExampleSequenceInputs
    \cup InfinitySequenceInputs \cup UnrecognisedInputs
    \cup FailingCollectionInputs \cup NestedFailingInputs \cup ChainInputs
    \cup LogicalInputs \cup UnaryMinusInputs

TypedInit ==
  /\ environment = TypedEnvironment
  /\ input \in TypedInputs
  /\ result = NoCall
  /\ before = environment
  /\ assigned = [name \in Names |-> ""]
  /\ frame = NoFrame

TypedNext == RunCall

TypedSpec == TypedInit /\ [][TypedNext]_vars

\* ------------------------------------------------------------------------
\* The recursion of one call: which texts _evaluateExpression is called on
\* ------------------------------------------------------------------------

\* line 261 without the removal of the parentheses
GroupWhole(expr) == expr

\* line 261: the text inside ( ... )
GroupInner(expr) == Substring(expr, 1, Len(expr) - 1)

\* lines 643-685: the texts _parseArguments hands to _evaluateExpression,
\* from iteration i on (the loop of ParseArgumentsLoop without the values)
RECURSIVE ArgumentTexts(_, _, _, _, _, _)
ArgumentTexts(argsString, i, argStart, inString, stringChar, parenDepth) ==
  LET q == ScanQuote(argsString, i, inString, stringChar)
      depth == ScanDepth(CharAt(argsString, i), q.inString, parenDepth)
  IN  IF i >= Len(argsString) /\ Trim(SubSeq(argsString, argStart + 1, Len(argsString))) = ""
        THEN {}
      ELSE IF i >= Len(argsString) THEN {Trim(SubSeq(argsString, argStart + 1, i))}
      ELSE IF CharAt(argsString, i) = "," /\ ~q.inString /\ depth = 0
        THEN {Trim(SubSeq(argsString, argStart + 1, i))}
               \cup ArgumentTexts(argsString, ScanStop(argsString, i + 1, ","), i + 1,
                                  q.inString, q.stringChar, depth)
      ELSE ArgumentTexts(argsString, ScanStop(argsString, i + 1, ","), argStart,
                         q.inString, q.stringChar, depth)

\* lines 416-515 and 614-686: the calls of _evaluateExpression that
\* _evaluateFunctionCall and _parseArguments make for the call text expr.
\* The predicate of filter / all / any is evaluated with @it bound, once for
\* each element of a finite array.
CallFrames(expr, it) ==
  LET openParenIndex == IndexOf(expr, "(")
      functionName == Trim(Substring(expr, 0, openParenIndex))
      argsString ==
        Trim(Substring(expr, openParenIndex + 1,
               CloseParenScan(expr, ScanStop(expr, openParenIndex + 1, ")"), FALSE, "", 0)))
      commaIndex == IndexOf(argsString, ",")
      predicateExpr == Trim(SubstringFrom(argsString, commaIndex + 1))
      first == [expr |-> Trim(Substring(argsString, 0, commaIndex)), it |-> it]
  IN  CASE Includes(argsString, "{@it")
             /\ (commaIndex = -1 \/ ~StartsWith(predicateExpr, "{")
                                 \/ ~EndsWith(predicateExpr, "}")) -> {}
        [] functionName \in {"filter", "all", "any"} /\ Includes(argsString, "{@it") ->
             {first, [expr |-> Trim(Substring(predicateExpr, 1, Len(predicateExpr) - 1)),
                      it |-> TRUE]}
        [] Includes(argsString, "{@it") -> {first}
        [] argsString = "" -> {}
        [] OTHER ->
             {[expr |-> a, it |-> it] :
                a \in ArgumentTexts(argsString, ScanStop(argsString, 0, ","), 0, FALSE, "", 0)}

\* lines 307-391: the operands the operator cascade and the unary not hand
\* to _evaluateExpression
OperandTexts(expr) ==
  LET operator == FirstOperator(expr)
      sp == SplitExpression(expr, operator)
  IN  CASE operator # "" /\ sp.ok -> {sp.left, sp.right}
        [] operator # "" -> {}
        [] StartsWith(expr, "!") -> {SubstringFrom(expr, 1)}
        [] StartsWith(expr, "not ") -> {SubstringFrom(expr, 4)}
        [] OTHER -> {}

\* lines 138-391 on the trimmed text: the calls of _evaluateExpression that
\* a call with argument expr can make itself, each with the text it is
\* called on.  The arms are those of EvaluateTrimmed, in its order.  Every
\* operand is listed, whether or not an earlier one throws or decides the
\* value; a call made while @it is bound is listed with it = TRUE even if a
\* nested filter / all / any has deleted @it by then.
TrimmedFrames(expr, it) ==
  LET itOp == ItComparisonMatch(expr)
      groupEnd == LeadingGroupEnd(expr, 0)
      opAt == SkipWS(expr, groupEnd + 1)
      content == Trim(Substring(expr, 1, Len(expr) - 1))
      items == Split(content, ",")
      Same(texts) == {[expr |-> t, it |-> it] : t \in texts}
  IN  CASE expr = "" -> {}
        [] Includes(expr, "@it") /\ ~it -> {}
        [] expr = "@it" -> {}
        [] Includes(expr, "@it") /\ itOp # 0 -> {}
        [] expr \in {"true", "True", "false", "False"} -> {}
        [] Includes(expr, "(") /\ Includes(expr, ")")
             /\ ParenArithmeticMatch(expr, groupEnd, opAt) ->
             Same({SubSeq(expr, 1, groupEnd + 1), SubstringFrom(expr, opAt + 1)})
        [] Includes(expr, "(") /\ Includes(expr, ")")
             /\ ParenLogicalMatch(expr, groupEnd, opAt) ->
             Same({SubSeq(expr, 1, groupEnd + 1),
                   SubstringFrom(expr, SkipWS(expr, opAt + 2))})
        [] StartsWith(expr, "(") /\ EndsWith(expr, ")") -> Same({GroupInner(expr)})
        [] \/ (StartsWith(expr, "\"") /\ EndsWith(expr, "\""))
           \/ (StartsWith(expr, "'") /\ EndsWith(expr, "'")) -> {}
        [] StartsWith(expr, "[") /\ EndsWith(expr, "]") ->
             IF content = "" THEN {}
             ELSE Same({Trim(items[i]) : i \in 1..Len(items)})
        [] ArrayAccessMatch(expr) -> {}
        [] Includes(expr, "(") /\ EndsWith(expr, ")") -> CallFrames(expr, it)
        [] OTHER -> Same(OperandTexts(expr))

\* lines 135-408; line 136: expr = expr.trim()
SubFrames(f) == TrimmedFrames(Trim(f.expr), f.it)

\* lines 110-127: the text _evaluateStatement hands to _evaluateExpression
StatementText(statement0) ==
  LET statement == Trim(statement0)
  IN  IF IsAssignment(statement) THEN Trim(Split(statement, "=")[2]) ELSE statement

\* lines 21-98: the calls of _evaluateExpression that evaluate(expr) can
\* make itself on a parser whose environment is env.  A statement after the
\* first may find @it bound or not, whatever the earlier ones did.
TopFrames(expr, env) ==
  LET cm == CollectionCallMatch(expr)
      statements == IF Includes(expr, ";") THEN SplitStatements(expr) ELSE <<expr>>
  IN  CASE Trim(expr) = "" -> {}
        [] QuotedEqualsMatch(expr, "\"") \/ QuotedEqualsMatch(expr, "'") -> {}
        [] ~Includes(expr, ";") /\ cm.prefix /\ cm.full ->
             IF Has(env, cm.collectionName) /\ env[cm.collectionName].t = "arr"
                  /\ Len(env[cm.collectionName].a) > 0
             THEN {[expr |-> cm.predicate, it |-> TRUE]}
             ELSE {}
        [] OTHER ->
             UNION {{[expr |-> StatementText(statements[i]), it |-> b] :
                       b \in IF i = 1 THEN {Has(env, "@it")} ELSE BOOLEAN} :
                    i \in 1..Len(statements)}

\* texts nested deeper than those of the other families
NestedInputs ==
  {"((((1))))", "!(!(!true))", "not not not x", "len([[1], [2, [3, 4]]])",
   "x = len(substring(\"hello\", len([1]), len([1, 2, 3])))",
   "[(1 + 2) * 3, [len(\"a,b\")], 1 - -1]",
   "filter(p, {@it > all(q, {@it > len(substring(\"hello\", @it, 4))})})",
   "any(myCollection, {(@it + 1) * (len(filter(p, {@it > 1})))})",
   "z = (1 + 2) * (3 - (4 / (5 + 6))) ; ((z)) && !(z > 1 || z < 0)"}

DescentInputs == CallInputs \cup TypedInputs \cup NestedInputs

\* the session environments the call is made in: @it unbound, and @it
\* bound by an earlier call
DescentEnvironments == {TypedEnvironment, Evaluate("@it = 5", TypedEnvironment).env}

DescentInit ==
  /\ environment \in DescentEnvironments
  /\ input \in DescentInputs
  /\ result = NoCall
  /\ before = environment
  /\ assigned = [name \in Names |-> ""]
  /\ frame = NoFrame

\* evaluate(input) calls _evaluateExpression
Enter ==
  /\ frame = NoFrame
  /\ \E call \in TopFrames(input, environment) :
       frame' = [expr |-> call.expr, it |-> call.it, depth |-> 1]
  /\ UNCHANGED <<environment, input, result, before, assigned>>

\* the innermost active call of _evaluateExpression makes a call of its own
Descend ==
  /\ frame # NoFrame
  /\ \E call \in SubFrames(frame) :
       frame' = [expr |-> call.expr, it |-> call.it, depth |-> frame.depth + 1]
  /\ UNCHANGED <<environment, input, result, before, assigned>>

DescentNext == Enter \/ Descend

\* the innermost active call makes no further call: it returns or throws
Innermost ==
  IF frame = NoFrame THEN TopFrames(input, environment) = {}
  ELSE SubFrames(frame) = {}

\* a behaviour follows one chain of nested calls of one call of evaluate
DescentSpec == DescentInit /\ [][DescentNext]_vars

\* ------------------------------------------------------------------------
\* Reference semantics the properties compare the calls with
\* ------------------------------------------------------------------------

\* the elements of the array c was bound to when the call started
CElements == [i \in 1..Len(before["c"].a) |-> before["c"].a[i].n]

CompareHolds(op, e, n) ==
  IF op = ">" THEN e > n
  ELSE IF op = "<" THEN e < n
  ELSE IF op = ">=" THEN e >= n
  ELSE IF op = "<=" THEN e <= n
  ELSE IF op = "==" THEN e = n
  ELSE e # n

\* filter / all / any over elems for a predicate that holds[e] and
\* raises[e] says whether it is truthy for e and whether it raises an error
RECURSIVE ReferenceScan(_, _, _, _, _, _)
ReferenceScan(f, elems, i, holds, raises, acc) ==
  IF i > Len(elems) THEN
    [ok |-> TRUE,
     text |-> IF f = "filter" THEN ArrayText(acc) ELSE IF f = "all" THEN "True" ELSE "False"]
  ELSE IF raises[elems[i]] THEN [ok |-> FALSE, text |-> ""]
  ELSE IF f = "all" /\ ~holds[elems[i]] THEN [ok |-> TRUE, text |-> "False"]
  ELSE IF f = "any" /\ holds[elems[i]] THEN [ok |-> TRUE, text |-> "True"]
  ELSE ReferenceScan(f, elems, i + 1, holds, raises,
                     IF holds[elems[i]] THEN Append(acc, elems[i]) ELSE acc)

Reference(f, elems, holds, raises) == ReferenceScan(f, elems, 1, holds, raises, <<>>)
NeverRaises == [e \in Lits |-> FALSE]

Agrees(res, ref) == IF ref.ok THEN res = Success(ref.text) ELSE ~res.success

\* the environment statements i.. of a sequence leave when run from env:
\* every statement before the first failing one has run, nothing else
RECURSIVE ExpectedEnvironment(_, _, _)
ExpectedEnvironment(statements, i, env) ==
  IF i > Len(statements) THEN [failed |-> FALSE, env |-> env]
  ELSE Let(EvaluateStatement(statements[i], [env |-> env, ids |-> EnvIds(env)]), LAMBDA r :
         IF r.ok THEN ExpectedEnvironment(statements, i + 1, r.st.env)
         ELSE [failed |-> TRUE, env |-> env])

\* what a sequence of statement forms is to do from its i-th form on, when
\* vals gives the numbers of the names among x and y that are bound and last
\* is the value of the form before: each form reads the bindings the forms
\* before it left, a read of an unbound name fails
Readable(o, vals) == o \in {"x", "y"} => o \in DOMAIN vals
OperandValue(o, vals) ==
  IF o = "" THEN 0 ELSE IF o \in {"x", "y"} THEN vals[o] ELSE DigitsToNat(o)
RECURSIVE ReferenceRun(_, _, _, _)
ReferenceRun(forms, i, vals, last) ==
  IF i > Len(forms) THEN [ok |-> TRUE, vals |-> vals, last |-> last]
  ELSE IF ~Readable(forms[i][2], vals) \/ ~Readable(forms[i][3], vals)
    THEN [ok |-> FALSE, vals |-> vals, last |-> last]
  ELSE LET value == OperandValue(forms[i][2], vals) + OperandValue(forms[i][3], vals)
       IN  ReferenceRun(forms, i + 1,
             IF forms[i][1] = "" THEN vals ELSE Put(vals, forms[i][1], value), value)

NoValues == [name \in {} |-> 0]

\* env with the names of vals bound to their numbers
WithValues(env, vals) ==
  [k \in DOMAIN env \cup DOMAIN vals |-> IF k \in DOMAIN vals THEN Num(vals[k]) ELSE env[k]]

\* what x OP y is to give for integers x and y: the text of the number, a
\* failure for a division by zero
Arithmetic(x, op, y) ==
  CASE op = "+" -> [ok |-> TRUE, text |-> NumToString(Num(x + y))]
    [] op = "-" -> [ok |-> TRUE, text |-> NumToString(Num(x - y))]
    [] op = "*" -> [ok |-> TRUE, text |-> NumToString(Num(x * y))]
    [] op = "/" /\ y = 0 -> [ok |-> FALSE, text |-> ""]
    [] OTHER -> [ok |-> TRUE, text |-> NumToString(Rational(x, y))]

\* ------------------------------------------------------------------------
\* Properties
\* ------------------------------------------------------------------------

\* C1: after a successful evaluate("name = v"), every later evaluate("name")
\* returns the text that call showed, until another call assigns the name.
C1_SessionPersistence ==
  \A name \in Names :
    (Called /\ input = name /\ assigned[name] # "") => result = Success(assigned[name])

\* C2: a failing call leaves exactly the environment produced by the
\* statements before the first failing one; a sequence with a failing
\* statement reports failure.
C2_NoRollbackNoPartialBind ==
  (Called /\ input \in SequenceInputs) =>
    Let(ExpectedEnvironment(SplitStatements(input), 1, before), LAMBDA expected :
      /\ (Includes(input, ";") /\ expected.failed) => ~result.success
      /\ ~result.success => environment = expected.env)

\* C3: once evaluate has returned the environment holds no binding for @it,
\* and evaluate("@it") reports failure.
C3_ItNeverStored ==
  /\ ~Has(environment, "@it")
  /\ (Called /\ input = "@it") => ~result.success

\* C4: a collection call nested in a predicate leaves the outer @it intact:
\* the outer call succeeds with the result over all its elements.
C4_NestedCallsKeepOuterIt ==
  Called =>
    \A outer \in CollectionFunctions, inner \in CollectionFunctions,
       op \in {"==", "!="}, n \in Lits :
      input = CollectionCall(outer, "c", NestedPredicate(op, inner, n)) =>
        Agrees(result, Reference(outer, CElements, [e \in Lits |-> op = "!="], NeverRaises))

\* C5: false && R and true || R succeed with "False" / "True" whatever error
\* evaluating R would raise.
C5_ShortCircuit ==
  Called =>
    \A r \in FailingOperands :
      /\ \A l \in FalseOperands : input = l \o " && " \o r => result = Success("False")
      /\ \A l \in TrueOperands : input = l \o " || " \o r => result = Success("True")

\* C6: filter / all / any on an array literal succeeds and gives what the
\* same call gives on a variable bound to that array;
\* filter([1,2,3], {@it > 1}) gives "[2, 3]".
C6_LiteralCollection ==
  Called =>
    /\ input = "filter([1,2,3], {@it > 1})" => result = Success("[2, 3]")
    /\ \A f \in CollectionFunctions, n \in Lits :
         input = CollectionCall(f, ArrayText(CElements), ComparisonPredicate(">", n)) =>
           /\ result.success
           /\ result = Evaluate(CollectionCall(f, "c", ComparisonPredicate(">", n)), before).out

\* C7: filter keeps exactly the elements the predicate is truthy for, in
\* order; all / any are the conjunction / disjunction over the elements and
\* stop at the first falsy / truthy one.
C7_CollectionSemantics ==
  Called =>
    \A f \in CollectionFunctions :
      /\ \A op \in ComparisonOps, n \in Lits :
           input = CollectionCall(f, "c", ComparisonPredicate(op, n)) =>
             Agrees(result, Reference(f, CElements,
                                      [e \in Lits |-> CompareHolds(op, e, n)], NeverRaises))
      /\ \A a \in Lits, b \in Lits :
           input = CollectionCall(f, "c", BetweenPredicate(a, b)) =>
             Agrees(result, Reference(f, CElements,
                                      [e \in Lits |-> e > a /\ e < b], NeverRaises))
      /\ input = CollectionCall(f, "c", ReciprocalPredicate) =>
           Agrees(result, Reference(f, CElements,
                                    [e \in Lits |-> e # 1], [e \in Lits |-> e = 0]))

\* C8: L / R reports failure whenever R evaluates to the number 0.
C8_DivisionByZeroFails ==
  (Called /\ input \in DivisionInputs) => ~result.success

\* C9: every call returns {success: true, result: text} or
\* {success: false, error: non-empty text}; nothing escapes; empty and
\* white-space-only input gives the failure shape.
C9_ResultShape ==
  Called =>
    /\ IF DOMAIN result = {"success", "result"}
         THEN result.success /\ Len(result.result) >= 0
       ELSE IF DOMAIN result = {"success", "error"}
         THEN ~result.success /\ Len(result.error) > 0
       ELSE FALSE
    /\ Trim(input) = "" => ~result.success

\* an error thrown while evaluating was turned into the failure shape
C9_Witness ==
  /\ Called
  /\ input = "2 / 0"
  /\ result = Failure("Error evaluating expression: Division by zero")

\* C10: a + b * c and b * c + a give a + (b*c); (a + b) * c and c * (a + b)
\* both succeed with (a+b)*c.
C10_Precedence ==
  Called =>
    \A a \in Lits, b \in Lits, c \in Lits :
      /\ input \in {SumProduct(a, b, c), ProductSum(a, b, c)} =>
           result = Success(Lit(a + b * c))
      /\ input \in {GroupTimes(a, b, c), TimesGroup(a, b, c)} =>
           result = Success(Lit((a + b) * c))

C12_StructuralEquality ==
  Called =>
    \A o \in EqualArrayOperands :
      /\ input = Comparison(o[1], "==", o[2]) => result = Success("True")
      /\ input = Comparison(o[1], "!=", o[2]) => result = Success("False")

\* C13: == between a number and a string gives False and != gives True,
\* without an error, also in a predicate @it == k applied to the array
\* ["2", 2], whose string element equals no number.
C13_EqualityAcrossKinds ==
  Called =>
    /\ \A l \in NumberOperands, r \in StringOperands :
         /\ input \in {Comparison(l, "==", r), Comparison(r, "==", l)} =>
              result = Success("False")
         /\ input \in {Comparison(l, "!=", r), Comparison(r, "!=", l)} =>
              result = Success("True")
    /\ \A k \in Lits :
         /\ input = CollectionCall("filter", "s", ComparisonPredicate("==", k)) =>
              result = Success(IF k = 2 THEN "[2]" ELSE "[]")
         /\ input = CollectionCall("filter", "s", ComparisonPredicate("!=", k)) =>
              result = Success(IF k = 2 THEN "[\"2\"]" ELSE "[\"2\", 2]")
         /\ input = CollectionCall("all", "s", ComparisonPredicate("==", k)) =>
              result = Success("False")
         /\ input = CollectionCall("any", "s", ComparisonPredicate("==", k)) =>
              result = Success(IF k = 2 THEN "True" ELSE "False")
         /\ input = CollectionCall("all", "s", ComparisonPredicate("!=", k)) =>
              result = Success(IF k = 2 THEN "False" ELSE "True")
         /\ input = CollectionCall("any", "s", ComparisonPredicate("!=", k)) =>
              result = Success("True")

\* C14: L + R, L - R, L * R and L / R report failure when L or R evaluates
\* to a string, a boolean or an array.
C14_ArithmeticRequiresNumbers ==
  (Called /\ input \in NonNumericArithmeticInputs) => ~result.success

\* C15: a statement T = e whose left side T is not a single identifier
\* reports failure and adds no key to the environment.
C15_AssignmentTarget ==
  (Called /\ input \in BadTargetInputs) =>
    /\ ~result.success
    /\ DOMAIN environment = DOMAIN before

\* C16: v = a OP k with OP one of == != <= >= succeeds and binds v to the
\* value of the comparison; the comparison statement n OP k binds nothing.
C16_AssignmentByForm ==
  Called =>
    \A op \in TwoCharOps, k \in Lits :
      /\ \A a \in Lits :
           input = ComparisonAssignment(a, op, k) =>
             /\ result = Success(FormatValue(Bool(CompareHolds(op, a, k))))
             /\ environment = Put(before, "v", Bool(CompareHolds(op, a, k)))
      /\ input = Comparison("n", op, Lit(k)) =>
           /\ result = Success(FormatValue(Bool(CompareHolds(op, 2, k))))
           /\ environment = before

\* C17: the double-quoted literal of a text without a quote character
\* evaluates to that text wrapped in double quotes, whatever operators or
\* punctuation it contains, and binds nothing.
C17_StringLiteralRoundTrip ==
  Called =>
    \A c \in Contents :
      input = Quoted(c) => (result = Success(Quoted(c)) /\ environment = before)

\* C18: the statements of a sequence run left to right, each seeing the
\* assignments before it; a successful call returns the formatted value of
\* the last statement, and afterwards every assigned name holds the value of
\* its last assignment.
C18_SequenceOrder ==
  Called =>
    /\ \A forms \in FormSequences :
         input = FormSequenceText(forms) =>
           LET ref == ReferenceRun(forms, 1, NoValues, 0)
           IN  IF ref.ok
                 THEN /\ result = Success(Lit(ref.last))
                      /\ environment = WithValues(before, ref.vals)
               ELSE ~result.success
    /\ input = "x = 5; y = 10; x + y" => result = Success("15")
    /\ input = "a = [1, 2]; a[0] + a[1]" => result = Success("3")
    /\ \A k \in 0..MaxVal :
         input = InfinitySequence(k) =>
           (result = Success(Lit(k + 1)) /\ environment["y"] = Num(k + 1))

\* C19: a text with a character that is no part of the language, or with
\* text after a complete numeric literal, reports failure.
C19_UnrecognisedInputRejected ==
  (Called /\ input \in UnrecognisedInputs) => ~result.success

\* C20: when the predicate of a collection call raises an error for some
\* element, the call reports failure and the @it bound for that element is
\* gone when evaluate returns, in the top-level path and in the path of
\* _evaluateFunctionCall.
C20_FramePoppedOnFailure ==
  (Called /\ input \in FailingCollectionInputs \cup NestedFailingInputs) =>
    /\ ~result.success
    /\ ~Has(environment, "@it")

\* C21: a - b - c gives (a - b) - c and a / b / c gives (a / b) / c (a
\* failure when b or c is 0).
C21_LeftAssociative ==
  Called =>
    \A a \in Lits, b \in Lits, c \in Lits :
      /\ input = Chain(a, "-", b, c) => result = Success(NumToString(Num((a - b) - c)))
      /\ input = Chain(a, "/", b, c) =>
           IF b = 0 \/ c = 0 THEN ~result.success
           ELSE result = Success(NumToString(Rational(a, b * c)))

\* C22: a < b && c < d gives (a < b) && (c < d), and p && q == r gives
\* p && (q == r).
C22_LogicalBindsLoosest ==
  Called =>
    /\ \A a \in Lits, b \in Lits, c \in Lits, d \in Lits :
         input = RelationalConjunction(a, b, c, d) =>
           result = Success(FormatValue(Bool(a < b /\ c < d)))
    /\ \A p \in BooleanLiterals, q \in BooleanLiterals, r \in BooleanLiterals :
         input = ConjunctionEquality(p, q, r) =>
           result = Success(FormatValue(Bool(p = "true" /\ q = r)))

\* C23: a OP -b gives a OP (-b) and -a OP b gives (-a) OP b for each of
\* + - * /; -5 - 3 gives -8 and 3 * -5 gives -15.
C23_UnaryMinus ==
  Called =>
    /\ \A a \in Lits, op \in ArithmeticOps, b \in Lits :
         /\ input = NegatedRight(a, op, b) => Agrees(result, Arithmetic(a, op, -b))
         /\ input = NegatedLeft(a, op, b) => Agrees(result, Arithmetic(-a, op, b))
    /\ input = "-5 - 3" => result = Success("-8")
    /\ input = "3 * -5" => result = Success("-15")
    /\ input = "3 + -5" => result = Success("-2")

\* C24: every call of evaluate terminates.  Each call of _evaluateExpression
\* that an active call makes (from _evaluateExpression itself, from
\* _evaluateFunctionCall, from _parseArguments or from a collection loop) is
\* on a strictly shorter text than the caller's, and the first one is on a
\* text no longer than the input.  The lengths are natural numbers, so no
\* chain of nested calls is deeper than the input is long, plus one; each
\* call makes finitely many calls (one per operand, argument, array item, or
\* element of a finite array), so the call of evaluate returns.
C24_Terminates ==
  [][/\ frame = NoFrame => Len(frame'.expr) <= Len(input)
     /\ frame # NoFrame => Len(frame'.expr) < Len(frame.expr)
     /\ frame'.depth <= Len(input) + 1]_vars
C24_Witness ==
  /\ frame # NoFrame
  /\ Innermost
  /\ frame.depth = 6
  /\ frame.expr = "5"
  /\ input = "z = (1 + 2) * (3 - (4 / (5 + 6))) ; ((z)) && !(z > 1 || z < 0)"

====
